---- MODULE Spec2Model ----
(***************************************************************************)
(* Model of the terminal time tracker (main.go): the bubbletea model and   *)
(* its Update handlers, and the history report written by saveHistory and  *)
(* re-read by loadHistory.                                                 *)
(*                                                                         *)
(* Time.  A time.Time is the number of milliseconds since local midnight   *)
(* of day 0 (Go keeps nanoseconds; one millisecond stands for the part of  *)
(* an instant below the second, which the report's layouts drop).  A       *)
(* time.Duration is a signed number of milliseconds.  Only the wall clock  *)
(* is modelled, not the time zone.                                         *)
(*                                                                         *)
(* Text.  A line of the report is [kind, val]: kind names the literal text *)
(* of the line in saveHistory, val is the tuple of numbers printed into    *)
(* it (<<>> when none).  The empty string is <<>>.                         *)
(***************************************************************************)
EXTENDS Integers, Sequences, FiniteSets, TLC

VARIABLES
    m,          \* the bubbletea model (struct model)
    ticks,      \* tick messages scheduled by tickCmd and not yet delivered
    now,        \* the wall clock read by time.Now / time.Since
    file,       \* history.txt on disk
    saveCalls,  \* arguments of the saveHistory calls made by the last event
    saveErr,    \* value returned by the last saveHistory call
    loadCalls,  \* calls of loadHistory made so far
    input,      \* store: the collection handed to saveHistory
    loaded,     \* store: the collection returned by loadHistory
    stage,      \* store: position in the write / edit / read sequence
    damaged,    \* store: ordinal of the record block edited by hand, or 0
    edit,       \* store: another change made to the file after it was written
    arg,        \* formatters: the time.Duration passed in
    text        \* formatters: the function called and the string returned

vars == <<m, ticks, now, file, saveCalls, saveErr, loadCalls,
          input, loaded, stage, damaged, edit, arg, text>>

uiVars == <<m, ticks, now, saveCalls, saveErr, loadCalls>>

storeVars == <<input, loaded, stage, damaged, edit>>

fmtVars == <<arg, text>>

----------------------------------------------------------------------------
(* Bounds of the model *)

MaxHistory == 2

MaxTicks == 2

MaxStoreLen == 2

----------------------------------------------------------------------------
(* package time *)

Second == 1000

Minute == 60 * Second

Hour == 60 * Minute

Day == 24 * Hour

\* Go's integer conversion and % truncate toward zero.
GoDiv(a, b) == IF a >= 0 THEN a \div b ELSE -((-a) \div b)

GoMod(a, b) == a - b * GoDiv(a, b)

\* t.Format("Monday, January 02, 2006"): the calendar day of t.
FormatDate(t) == <<t \div Day>>

\* t.Format("03:04:05 PM"): 12-hour clock, minute, second, AM (0) or PM (1).
FormatClock(t) ==
    LET sod == (t % Day) \div Second
        h24 == sod \div 3600
        h12 == IF h24 % 12 = 0 THEN 12 ELSE h24 % 12
    IN  <<h12, (sod \div 60) % 60, sod % 60, IF h24 >= 12 THEN 1 ELSE 0>>

\* t.Format("Mon Jan 02, 2006 at 03:04 PM")
FormatGenerated(t) ==
    LET c == FormatClock(t) IN <<t \div Day, c[1], c[2], c[4]>>

\* time.Parse("Monday, January 02, 2006 03:04:05 PM", dateStr+" "+clockStr)
ParseTime(dateStr, clockStr) ==
    LET okDate  == Len(dateStr) = 1 /\ dateStr[1] >= 0
        okClock == /\ Len(clockStr) = 4
                   /\ clockStr[1] \in 0..12
                   /\ clockStr[2] \in 0..59
                   /\ clockStr[3] \in 0..59
                   /\ clockStr[4] \in {0, 1}
        h   == clockStr[1]
        h24 == IF clockStr[4] = 1 /\ h < 12 THEN h + 12
               ELSE IF clockStr[4] = 0 /\ h = 12 THEN 0
               ELSE h
    IN  IF okDate /\ okClock
        THEN [err |-> FALSE,
              t   |-> dateStr[1] * Day
                      + (h24 * 3600 + clockStr[2] * 60 + clockStr[3]) * Second]
        ELSE [err |-> TRUE, t |-> 0]

----------------------------------------------------------------------------
(* type session *)

session(start, end, duration) ==
    [start |-> start, end |-> end, duration |-> duration]

----------------------------------------------------------------------------
(* formatDurationLong, formatDuration *)

(* The minutes are printed whole, without the "% 60". *)
formatDurationLong_TotalMinutes(d) ==
    LET hours   == GoDiv(d, Hour)
        minutes == GoDiv(d, Minute)
        seconds == GoMod(GoDiv(d, Second), 60)
    IN  IF hours > 0 THEN <<hours, minutes, seconds>>
        ELSE IF minutes > 0 THEN <<minutes, seconds>>
        ELSE <<seconds>>

(* "1h 2m 5s" is <<1, 2, 5>>, "2m 5s" is <<2, 5>>, "5s" is <<5>>: the verb
   %d prints the number as it is. *)
formatDurationLong(d) ==
    LET hours   == GoDiv(d, Hour)
        minutes == GoMod(GoDiv(d, Minute), 60)
        seconds == GoMod(GoDiv(d, Second), 60)
    IN  IF hours > 0 THEN <<hours, minutes, seconds>>
        ELSE IF minutes > 0 THEN <<minutes, seconds>>
        ELSE <<seconds>>

(* The decimal digits of n >= 0, most significant first. *)
RECURSIVE Digits(_)
Digits(n) == IF n < 10 THEN <<n>> ELSE Append(Digits(n \div 10), n % 10)

(* fmt's verb %02d: the characters printed, padded with zeros on the left to
   a width of two; the sign of a negative number takes one of the two. *)
Sprintf02d(n) ==
    IF n < 0 THEN <<"-">> \o Digits(0 - n)
    ELSE IF n < 10 THEN <<0, n>>
    ELSE Digits(n)

(* The fields are printed as they come, without padding (the verb %d). *)
formatDuration_Unpadded(d) ==
    LET hours   == GoDiv(d, Hour)
        minutes == GoMod(GoDiv(d, Minute), 60)
        seconds == GoMod(GoDiv(d, Second), 60)
    IN  IF hours > 0 THEN <<Digits(hours), Digits(minutes), Digits(seconds)>>
        ELSE <<Digits(minutes), Digits(seconds)>>

(* "01:02:03" is <<<<0, 1>>, <<0, 2>>, <<0, 3>>>>: one tuple of characters
   for each field, the fields joined by ":". *)
formatDuration(d) ==
    LET hours   == GoDiv(d, Hour)
        minutes == GoMod(GoDiv(d, Minute), 60)
        seconds == GoMod(GoDiv(d, Second), 60)
    IN  IF hours > 0
        THEN <<Sprintf02d(hours), Sprintf02d(minutes), Sprintf02d(seconds)>>
        ELSE <<Sprintf02d(minutes), Sprintf02d(seconds)>>

----------------------------------------------------------------------------
(* saveHistory: the text of the report *)

Line(kind, val) == [kind |-> kind, val |-> val]

Text(kind) == Line(kind, <<>>)

RECURSIVE Repeat(_, _)
Repeat(x, n) == IF n = 0 THEN <<>> ELSE <<x>> \o Repeat(x, n - 1)

RECURSIVE totalDuration(_)
totalDuration(history) ==
    IF history = <<>> THEN 0
    ELSE history[1].duration + totalDuration(Tail(history))

HeaderBanner ==
    <<Text("blank"), Text("hdrTop")>> \o Repeat(Text("hdrArt"), 15)
        \o <<Text("hdrBot")>>

Metadata(history, t) ==
    <<Text("blank"),
      Line("generated", FormatGenerated(t)),
      Line("totalSessions", <<Len(history)>>),
      Line("totalTime", formatDurationLong(totalDuration(history)))>>

SectionBanner ==
    <<Text("blank"), Text("secTop"), Text("secTitle"), Text("secBot")>>

NoSessions == <<Text("blank"), Text("noSessions")>>

RecordBlock(i, sess) ==
    <<Text("blank"),
      Text("recTop"),
      Line("recNum", <<i>>),
      Text("recSep"),
      Line("recDate", FormatDate(sess.start)),
      Line("recStart", FormatClock(sess.start)),
      Line("recEnd", FormatClock(sess.end)),
      Line("recDur", formatDurationLong(sess.duration)),
      Text("recBot")>>

RECURSIVE RecordBlocks(_, _)
RecordBlocks(history, i) ==
    IF i > Len(history) THEN <<>>
    ELSE RecordBlock(i, history[i]) \o RecordBlocks(history, i + 1)

FooterBanner ==
    <<Text("blank"), Text("ftrTop"), Text("ftrTitle"), Text("ftrBot")>>

\* Mutant: saveHistory stops after "No sessions recorded yet."
WriteReport_NoFooterWhenEmpty(history, t) ==
    HeaderBanner \o Metadata(history, t) \o SectionBanner
        \o (IF Len(history) = 0 THEN NoSessions
            ELSE RecordBlocks(history, 1) \o FooterBanner)

WriteReport(history, t) ==
    HeaderBanner \o Metadata(history, t) \o SectionBanner
        \o (IF Len(history) = 0 THEN NoSessions ELSE RecordBlocks(history, 1))
        \o FooterBanner

----------------------------------------------------------------------------
(* history.txt *)

NoFile == [st |-> "missing", lines |-> <<>>]

----------------------------------------------------------------------------
(* loadHistory *)

\* strings.Contains(line, marker) for the markers loadHistory looks for,
\* decided by the literal text of each kind of line.
Contains(line, marker) ==
    CASE marker = "SESSION #" -> line.kind = "recNum"
      [] marker = "Date:"     -> line.kind = "recDate"
      [] marker = "Start:"    -> line.kind = "recStart"
      [] marker = "End:"      -> line.kind = "recEnd"
      [] marker = "--"        -> line.kind \in {"secTop", "secBot", "recTop",
                                                "recSep", "recBot"}
      [] marker = "L--"       -> line.kind \in {"secBot", "recBot"}

\* strings.TrimSpace(strings.Split(strings.SplitN(line, label, 2)[1], "|")[0])
FieldValue(line) == line.val

ScanInit ==
    [history |-> <<>>, currentSession |-> FALSE,
     dateStr |-> <<>>, startStr |-> <<>>, endStr |-> <<>>]

\* Mutant: a finished record is put in front of the history.
ScanLine_Prepend(s, line) ==
    LET begin    == Contains(line, "SESSION #")
        current  == begin \/ s.currentSession
        dateStr  == IF Contains(line, "Date:") THEN FieldValue(line)
                    ELSE IF begin THEN <<>> ELSE s.dateStr
        startStr == IF Contains(line, "Start:") /\ ~Contains(line, "--")
                    THEN FieldValue(line)
                    ELSE IF begin THEN <<>> ELSE s.startStr
        endStr   == IF Contains(line, "End:") THEN FieldValue(line)
                    ELSE IF begin THEN <<>> ELSE s.endStr
        closing  == /\ Contains(line, "L--")
                    /\ current
                    /\ dateStr # <<>>
                    /\ startStr # <<>>
                    /\ endStr # <<>>
        startTime == ParseTime(dateStr, startStr)
        endTime   == ParseTime(dateStr, endStr)
    IN  [history        |-> IF closing /\ ~startTime.err /\ ~endTime.err
                            THEN <<session(startTime.t, endTime.t,
                                           endTime.t - startTime.t)>>
                                     \o s.history
                            ELSE s.history,
         currentSession |-> IF closing THEN FALSE ELSE current,
         dateStr        |-> dateStr,
         startStr       |-> startStr,
         endStr         |-> endStr]

\* Mutant: the record marker does not clear the three pending strings.
ScanLine_NoReset(s, line) ==
    LET begin    == Contains(line, "SESSION #")
        current  == begin \/ s.currentSession
        dateStr  == IF Contains(line, "Date:") THEN FieldValue(line)
                    ELSE s.dateStr
        startStr == IF Contains(line, "Start:") /\ ~Contains(line, "--")
                    THEN FieldValue(line)
                    ELSE s.startStr
        endStr   == IF Contains(line, "End:") THEN FieldValue(line)
                    ELSE s.endStr
        closing  == /\ Contains(line, "L--")
                    /\ current
                    /\ dateStr # <<>>
                    /\ startStr # <<>>
                    /\ endStr # <<>>
        startTime == ParseTime(dateStr, startStr)
        endTime   == ParseTime(dateStr, endStr)
    IN  [history        |-> IF closing /\ ~startTime.err /\ ~endTime.err
                            THEN Append(s.history,
                                        session(startTime.t, endTime.t,
                                                endTime.t - startTime.t))
                            ELSE s.history,
         currentSession |-> IF closing THEN FALSE ELSE current,
         dateStr        |-> dateStr,
         startStr       |-> startStr,
         endStr         |-> endStr]

\* Mutant: the errors of time.Parse are not looked at.
ScanLine_IgnoreParseError(s, line) ==
    LET begin    == Contains(line, "SESSION #")
        current  == begin \/ s.currentSession
        dateStr  == IF Contains(line, "Date:") THEN FieldValue(line)
                    ELSE IF begin THEN <<>> ELSE s.dateStr
        startStr == IF Contains(line, "Start:") /\ ~Contains(line, "--")
                    THEN FieldValue(line)
                    ELSE IF begin THEN <<>> ELSE s.startStr
        endStr   == IF Contains(line, "End:") THEN FieldValue(line)
                    ELSE IF begin THEN <<>> ELSE s.endStr
        closing  == /\ Contains(line, "L--")
                    /\ current
                    /\ dateStr # <<>>
                    /\ startStr # <<>>
                    /\ endStr # <<>>
        startTime == ParseTime(dateStr, startStr)
        endTime   == ParseTime(dateStr, endStr)
    IN  [history        |-> IF closing
                            THEN Append(s.history,
                                        session(startTime.t, endTime.t,
                                                endTime.t - startTime.t))
                            ELSE s.history,
         currentSession |-> IF closing THEN FALSE ELSE current,
         dateStr        |-> dateStr,
         startStr       |-> startStr,
         endStr         |-> endStr]

\* Mutant: a record is finished by its "End:" line, not by its closing line.
ScanLine_CloseAtEnd(s, line) ==
    LET begin    == Contains(line, "SESSION #")
        current  == begin \/ s.currentSession
        dateStr  == IF Contains(line, "Date:") THEN FieldValue(line)
                    ELSE IF begin THEN <<>> ELSE s.dateStr
        startStr == IF Contains(line, "Start:") /\ ~Contains(line, "--")
                    THEN FieldValue(line)
                    ELSE IF begin THEN <<>> ELSE s.startStr
        endStr   == IF Contains(line, "End:") THEN FieldValue(line)
                    ELSE IF begin THEN <<>> ELSE s.endStr
        closing  == /\ Contains(line, "End:")
                    /\ current
                    /\ dateStr # <<>>
                    /\ startStr # <<>>
                    /\ endStr # <<>>
        startTime == ParseTime(dateStr, startStr)
        endTime   == ParseTime(dateStr, endStr)
    IN  [history        |-> IF closing /\ ~startTime.err /\ ~endTime.err
                            THEN Append(s.history,
                                        session(startTime.t, endTime.t,
                                                endTime.t - startTime.t))
                            ELSE s.history,
         currentSession |-> IF closing THEN FALSE ELSE current,
         dateStr        |-> dateStr,
         startStr       |-> startStr,
         endStr         |-> endStr]

\* One iteration of the scanner's loop on `line`, from state s.  The five
\* tests of the loop body run in the order of the code: the reset at the
\* record marker comes before the three label extractions, which come before
\* the test of the closing delimiter.
ScanLine(s, line) ==
    LET begin    == Contains(line, "SESSION #")
        current  == begin \/ s.currentSession
        dateStr  == IF Contains(line, "Date:") THEN FieldValue(line)
                    ELSE IF begin THEN <<>> ELSE s.dateStr
        startStr == IF Contains(line, "Start:") /\ ~Contains(line, "--")
                    THEN FieldValue(line)
                    ELSE IF begin THEN <<>> ELSE s.startStr
        endStr   == IF Contains(line, "End:") THEN FieldValue(line)
                    ELSE IF begin THEN <<>> ELSE s.endStr
        closing  == /\ Contains(line, "L--")
                    /\ current
                    /\ dateStr # <<>>
                    /\ startStr # <<>>
                    /\ endStr # <<>>
        startTime == ParseTime(dateStr, startStr)
        endTime   == ParseTime(dateStr, endStr)
    IN  [history        |-> IF closing /\ ~startTime.err /\ ~endTime.err
                            THEN Append(s.history,
                                        session(startTime.t, endTime.t,
                                                endTime.t - startTime.t))
                            ELSE s.history,
         currentSession |-> IF closing THEN FALSE ELSE current,
         dateStr        |-> dateStr,
         startStr       |-> startStr,
         endStr         |-> endStr]

\* for scanner.Scan() { ... }: the loop over the lines from line i on.  The
\* test on `next` has the state of one iteration computed before the next
\* iteration starts.
RECURSIVE Scan(_, _, _)
Scan(s, lines, i) ==
    IF i > Len(lines) THEN s
    ELSE LET next == ScanLine(s, lines[i])
         IN  IF next.currentSession \in BOOLEAN
             THEN Scan(next, lines, i + 1)
             ELSE next

\* Mutant: the error of os.Open is not looked at.
loadHistory_IgnoreOpenError(f) == Scan(ScanInit, f.lines, 1).history

loadHistory(f) ==
    IF f.st # "ok" THEN <<>> ELSE Scan(ScanInit, f.lines, 1).history

----------------------------------------------------------------------------
(* initialModel *)

menuItems ==
    <<"Start tracking", "Stop tracking", "View history", "Settings", "Quit">>

initialModel(f) ==
    [currentView    |-> "menuView",
     cursor         |-> 0,
     tracking       |-> FALSE,
     trackingStart  |-> 0,
     elapsed        |-> 0,
     history        |-> loadHistory(f),
     settingsCursor |-> 0,
     settings       |-> [k \in {"Show seconds", "Auto-save", "Notifications",
                                "Dark mode"} |-> k # "Notifications"]]

----------------------------------------------------------------------------
(* Update and its handlers.  A handler takes the model, the key, the clock  *)
(* reading t and werr, the value os.WriteFile returns if the handler calls  *)
(* saveHistory; it yields the new model, the command returned, and the      *)
(* arguments of the saveHistory calls it made.                              *)

Result(model, cmd, saved) == [m |-> model, cmd |-> cmd, saved |-> saved]

TickMsg == [type |-> "tickMsg", key |-> ""]

KeyMsg(key) == [type |-> "KeyMsg", key |-> key]

settingsKeys == <<"Show seconds", "Auto-save", "Notifications", "Dark mode">>

\* Mutant: "Start tracking" starts over while tracking.
updateMenu_Restart(model, key, t, werr) ==
    CASE key \in {"ctrl+c", "q"} -> Result(model, "quit", <<>>)
      [] key \in {"up", "k"} ->
            Result([model EXCEPT !.cursor = IF @ > 0 THEN @ - 1 ELSE @],
                   "nil", <<>>)
      [] key \in {"down", "j"} ->
            Result([model EXCEPT
                      !.cursor = IF @ < Len(menuItems) - 1 THEN @ + 1 ELSE @],
                   "nil", <<>>)
      [] key = "enter" ->
            (CASE model.cursor = 0 ->
                    IF TRUE
                    THEN Result([model EXCEPT !.tracking = TRUE,
                                              !.trackingStart = t,
                                              !.elapsed = 0,
                                              !.currentView = "trackingView"],
                                "tick", <<>>)
                    ELSE Result(model, "nil", <<>>)
               [] model.cursor = 1 ->
                    IF model.tracking
                    THEN LET h == Append(model.history,
                                         session(model.trackingStart, t,
                                                 model.elapsed))
                         IN  Result([model EXCEPT !.tracking = FALSE,
                                                  !.history = h,
                                                  !.elapsed = 0],
                                    "nil", <<h>>)
                    ELSE Result(model, "nil", <<>>)
               [] model.cursor = 2 ->
                    Result([model EXCEPT !.currentView = "historyView",
                                         !.cursor = 0],
                           "nil", <<>>)
               [] model.cursor = 3 ->
                    Result([model EXCEPT !.currentView = "settingsView",
                                         !.settingsCursor = 0],
                           "nil", <<>>)
               [] model.cursor = 4 -> Result(model, "quit", <<>>)
               [] OTHER -> Result(model, "nil", <<>>))
      [] OTHER -> Result(model, "nil", <<>>)

updateMenu(model, key, t, werr) ==
    CASE key \in {"ctrl+c", "q"} -> Result(model, "quit", <<>>)
      [] key \in {"up", "k"} ->
            Result([model EXCEPT !.cursor = IF @ > 0 THEN @ - 1 ELSE @],
                   "nil", <<>>)
      [] key \in {"down", "j"} ->
            Result([model EXCEPT
                      !.cursor = IF @ < Len(menuItems) - 1 THEN @ + 1 ELSE @],
                   "nil", <<>>)
      [] key = "enter" ->
            (CASE model.cursor = 0 ->
                    IF ~model.tracking
                    THEN Result([model EXCEPT !.tracking = TRUE,
                                              !.trackingStart = t,
                                              !.elapsed = 0,
                                              !.currentView = "trackingView"],
                                "tick", <<>>)
                    ELSE Result(model, "nil", <<>>)
               [] model.cursor = 1 ->
                    IF model.tracking
                    THEN LET h == Append(model.history,
                                         session(model.trackingStart, t,
                                                 model.elapsed))
                         IN  Result([model EXCEPT !.tracking = FALSE,
                                                  !.history = h,
                                                  !.elapsed = 0],
                                    "nil", <<h>>)
                    ELSE Result(model, "nil", <<>>)
               [] model.cursor = 2 ->
                    Result([model EXCEPT !.currentView = "historyView",
                                         !.cursor = 0],
                           "nil", <<>>)
               [] model.cursor = 3 ->
                    Result([model EXCEPT !.currentView = "settingsView",
                                         !.settingsCursor = 0],
                           "nil", <<>>)
               [] model.cursor = 4 -> Result(model, "quit", <<>>)
               [] OTHER -> Result(model, "nil", <<>>))
      [] OTHER -> Result(model, "nil", <<>>)

\* Mutant: stopping saves only while the "Auto-save" setting is on.
updateTracking_AutoSave(model, key, t, werr) ==
    CASE key \in {"ctrl+c", "q"} -> Result(model, "quit", <<>>)
      [] key \in {"esc", "b"} ->
            Result([model EXCEPT !.currentView = "menuView"], "nil", <<>>)
      [] key \in {"enter", "s"} ->
            IF model.tracking
            THEN LET h == Append(model.history,
                                 session(model.trackingStart, t,
                                         model.elapsed))
                 IN  Result([model EXCEPT !.tracking = FALSE,
                                          !.history = h,
                                          !.elapsed = 0,
                                          !.currentView = "menuView"],
                            "nil",
                            IF model.settings["Auto-save"] THEN <<h>>
                            ELSE <<>>)
            ELSE Result(model, "nil", <<>>)
      [] OTHER -> Result(model, "tick", <<>>)

\* Mutant: stopping leaves the tracking view on screen.
updateTracking_StayInView(model, key, t, werr) ==
    CASE key \in {"ctrl+c", "q"} -> Result(model, "quit", <<>>)
      [] key \in {"esc", "b"} ->
            Result([model EXCEPT !.currentView = "menuView"], "nil", <<>>)
      [] key \in {"enter", "s"} ->
            IF model.tracking
            THEN LET h == Append(model.history,
                                 session(model.trackingStart, t,
                                         model.elapsed))
                 IN  Result([model EXCEPT !.tracking = FALSE,
                                          !.history = h,
                                          !.elapsed = 0],
                            "nil", <<h>>)
            ELSE Result(model, "nil", <<>>)
      [] OTHER -> Result(model, "tick", <<>>)

updateTracking(model, key, t, werr) ==
    CASE key \in {"ctrl+c", "q"} -> Result(model, "quit", <<>>)
      [] key \in {"esc", "b"} ->
            Result([model EXCEPT !.currentView = "menuView"], "nil", <<>>)
      [] key \in {"enter", "s"} ->
            IF model.tracking
            THEN LET h == Append(model.history,
                                 session(model.trackingStart, t,
                                         model.elapsed))
                 IN  Result([model EXCEPT !.tracking = FALSE,
                                          !.history = h,
                                          !.elapsed = 0,
                                          !.currentView = "menuView"],
                            "nil", <<h>>)
            ELSE Result(model, "nil", <<>>)
      [] OTHER -> Result(model, "tick", <<>>)

\* Mutant: the last session is cut off, whatever the cursor.
DeleteAt_Last(history, c) == SubSeq(history, 1, Len(history) - 1)

\* append(history[:c], history[c+1:]...)
DeleteAt(history, c) ==
    SubSeq(history, 1, c) \o SubSeq(history, c + 2, Len(history))

\* Mutant: when the write fails the session stays in the history.
updateHistory_KeepOnError(model, key, t, werr) ==
    CASE key \in {"ctrl+c", "q"} -> Result(model, "quit", <<>>)
      [] key \in {"esc", "b"} ->
            Result([model EXCEPT !.currentView = "menuView", !.cursor = 0],
                   "nil", <<>>)
      [] key \in {"up", "k"} ->
            Result([model EXCEPT !.cursor = IF @ > 0 THEN @ - 1 ELSE @],
                   "nil", <<>>)
      [] key \in {"down", "j"} ->
            Result([model EXCEPT
                      !.cursor = IF @ < Len(model.history) - 1 THEN @ + 1
                                 ELSE @],
                   "nil", <<>>)
      [] key \in {"d", "backspace"} ->
            IF Len(model.history) > 0 /\ model.cursor < Len(model.history)
            THEN LET h == DeleteAt(model.history, model.cursor)
                     c == IF model.cursor >= Len(h) /\ model.cursor > 0
                          THEN model.cursor - 1
                          ELSE model.cursor
                 IN  IF werr = "err"
                     THEN Result(model, "nil", <<h>>)
                     ELSE Result([model EXCEPT !.history = h, !.cursor = c],
                                 "nil", <<h>>)
            ELSE Result(model, "nil", <<>>)
      [] OTHER -> Result(model, "nil", <<>>)

\* Mutant: the cursor stays where it was after a delete.
updateHistory_NoCursorFix(model, key, t, werr) ==
    CASE key \in {"ctrl+c", "q"} -> Result(model, "quit", <<>>)
      [] key \in {"esc", "b"} ->
            Result([model EXCEPT !.currentView = "menuView", !.cursor = 0],
                   "nil", <<>>)
      [] key \in {"up", "k"} ->
            Result([model EXCEPT !.cursor = IF @ > 0 THEN @ - 1 ELSE @],
                   "nil", <<>>)
      [] key \in {"down", "j"} ->
            Result([model EXCEPT
                      !.cursor = IF @ < Len(model.history) - 1 THEN @ + 1
                                 ELSE @],
                   "nil", <<>>)
      [] key \in {"d", "backspace"} ->
            IF Len(model.history) > 0 /\ model.cursor < Len(model.history)
            THEN LET h == DeleteAt(model.history, model.cursor)
                     c == model.cursor
                 IN  Result([model EXCEPT !.history = h, !.cursor = c],
                            "nil", <<h>>)
            ELSE Result(model, "nil", <<>>)
      [] OTHER -> Result(model, "nil", <<>>)

updateHistory(model, key, t, werr) ==
    CASE key \in {"ctrl+c", "q"} -> Result(model, "quit", <<>>)
      [] key \in {"esc", "b"} ->
            Result([model EXCEPT !.currentView = "menuView", !.cursor = 0],
                   "nil", <<>>)
      [] key \in {"up", "k"} ->
            Result([model EXCEPT !.cursor = IF @ > 0 THEN @ - 1 ELSE @],
                   "nil", <<>>)
      [] key \in {"down", "j"} ->
            Result([model EXCEPT
                      !.cursor = IF @ < Len(model.history) - 1 THEN @ + 1
                                 ELSE @],
                   "nil", <<>>)
      [] key \in {"d", "backspace"} ->
            IF Len(model.history) > 0 /\ model.cursor < Len(model.history)
            THEN LET h == DeleteAt(model.history, model.cursor)
                     c == IF model.cursor >= Len(h) /\ model.cursor > 0
                          THEN model.cursor - 1
                          ELSE model.cursor
                 IN  Result([model EXCEPT !.history = h, !.cursor = c],
                            "nil", <<h>>)
            ELSE Result(model, "nil", <<>>)
      [] OTHER -> Result(model, "nil", <<>>)

updateSettings(model, key, t, werr) ==
    CASE key \in {"ctrl+c", "q"} -> Result(model, "quit", <<>>)
      [] key \in {"esc", "b"} ->
            Result([model EXCEPT !.currentView = "menuView", !.cursor = 0],
                   "nil", <<>>)
      [] key \in {"up", "k"} ->
            Result([model EXCEPT
                      !.settingsCursor = IF @ > 0 THEN @ - 1 ELSE @],
                   "nil", <<>>)
      [] key \in {"down", "j"} ->
            Result([model EXCEPT
                      !.settingsCursor =
                          IF @ < Len(settingsKeys) - 1 THEN @ + 1 ELSE @],
                   "nil", <<>>)
      [] key \in {"enter", " "} ->
            LET k == settingsKeys[model.settingsCursor + 1]
            IN  Result([model EXCEPT !.settings[k] = ~@], "nil", <<>>)
      [] OTHER -> Result(model, "nil", <<>>)

\* Mutant: a tick refreshes the timer only while the tracking view is shown.
Update_TickInTrackingViewOnly(model, msg, t, werr) ==
    IF msg.type = "tickMsg"
    THEN IF model.tracking /\ model.currentView = "trackingView"
         THEN Result([model EXCEPT !.elapsed = t - model.trackingStart],
                     "tick", <<>>)
         ELSE Result(model, "nil", <<>>)
    ELSE CASE model.currentView = "menuView" ->
                updateMenu(model, msg.key, t, werr)
           [] model.currentView = "trackingView" ->
                updateTracking(model, msg.key, t, werr)
           [] model.currentView = "historyView" ->
                updateHistory(model, msg.key, t, werr)
           [] model.currentView = "settingsView" ->
                updateSettings(model, msg.key, t, werr)

Update(model, msg, t, werr) ==
    IF msg.type = "tickMsg"
    THEN IF model.tracking
         THEN Result([model EXCEPT !.elapsed = t - model.trackingStart],
                     "tick", <<>>)
         ELSE Result(model, "nil", <<>>)
    ELSE CASE model.currentView = "menuView" ->
                updateMenu(model, msg.key, t, werr)
           [] model.currentView = "trackingView" ->
                updateTracking(model, msg.key, t, werr)
           [] model.currentView = "historyView" ->
                updateHistory(model, msg.key, t, werr)
           [] model.currentView = "settingsView" ->
                updateSettings(model, msg.key, t, werr)

----------------------------------------------------------------------------
(* os.WriteFile(historyFile, text, 0644) *)

\* Line count a failed write leaves behind: everything up to the line
\* before the last closing delimiter of the text.
WriteCuts(lines) == {Len(lines) - 5}

\* Mutant: the text is added at the end of what the file holds.
WriteFile_Append(f, lines, outcome, cut) ==
    CASE outcome = "ok" ->
            [file |-> [st |-> IF f.st = "missing" THEN "ok" ELSE f.st,
                       lines |-> f.lines \o lines],
             err |-> "nil"]
      [] outcome = "open" -> [file |-> f, err |-> "err"]
      [] outcome = "write" ->
            [file |-> [st |-> IF f.st = "missing" THEN "ok" ELSE f.st,
                       lines |-> f.lines \o SubSeq(lines, 1, cut)],
             err |-> "err"]

\* outcome "ok": the file holds the text.  "open": the file could not be
\* opened for writing and is left as it was.  "write": the file was
\* truncated and the write stopped after `cut` lines.
WriteFile(f, lines, outcome, cut) ==
    CASE outcome = "ok" ->
            [file |-> [st |-> IF f.st = "missing" THEN "ok" ELSE f.st,
                       lines |-> lines],
             err |-> "nil"]
      [] outcome = "open" -> [file |-> f, err |-> "err"]
      [] outcome = "write" ->
            [file |-> [st |-> IF f.st = "missing" THEN "ok" ELSE f.st,
                       lines |-> SubSeq(lines, 1, cut)],
             err |-> "err"]

\* saveHistory(history) at clock reading t: the new file and the error
\* value returned.
saveHistory(f, history, t, outcome, cut) ==
    WriteFile(f, WriteReport(history, t), outcome, cut)

----------------------------------------------------------------------------
(* The store on its own: saveHistory, an edit of the file, loadHistory *)

At(day, h, mi, s, ms) == day * Day + h * Hour + mi * Minute + s * Second + ms

\* Instants the sessions of the store's input are drawn from: before noon,
\* the last second of day 0, the second second of day 1, and an instant of
\* day 1 after noon that is not a whole second.
StoreInstants ==
    {At(0, 11, 59, 58, 0), At(0, 23, 59, 59, 0), At(1, 0, 0, 1, 0),
     At(1, 12, 0, 2, 500)}

StoreSessions ==
    {session(a, b, d) : <<a, b, d>> \in
        {<<a, b, d>> \in StoreInstants \X StoreInstants
                            \X ({0} \cup {x - y : x, y \in StoreInstants}) :
            d \in {0, b - a}}}

NoEdit == [kind |-> "none", at |-> 0]

NoText == [fn |-> "none", s |-> <<>>]

RECURSIVE SeqsUpTo(_, _)
SeqsUpTo(S, n) ==
    IF n = 0 THEN {<<>>}
    ELSE LET shorter == SeqsUpTo(S, n - 1)
         IN  shorter \cup {Append(q, x) : q \in {r \in shorter : Len(r) = n - 1},
                                          x \in S}

StoreInit ==
    /\ input \in SeqsUpTo(StoreSessions, MaxStoreLen)
    /\ loaded = <<>>
    /\ stage = "start"
    /\ damaged = 0
    /\ file = NoFile
    /\ m = initialModel(NoFile)
    /\ ticks = 0
    /\ now = 0
    /\ saveCalls = <<>>
    /\ saveErr = "none"
    /\ loadCalls = 0
    /\ edit = NoEdit
    /\ arg = 0
    /\ text = NoText

\* The clock when the store writes: the latest of the instants.
StoreNow == CHOOSE t \in StoreInstants : \A u \in StoreInstants : u <= t

\* saveHistory(input) with a successful os.WriteFile.
StoreSave ==
    /\ stage = "start"
    /\ file' = saveHistory(file, input, StoreNow, "ok", 0).file
    /\ stage' = "saved"
    /\ UNCHANGED <<input, loaded, damaged, edit>>
    /\ UNCHANGED uiVars
    /\ UNCHANGED fmtVars

\* Position of the "End:" line of record block k in a report.
EndLineOf(lines, k) ==
    CHOOSE i \in 1..Len(lines) :
        /\ lines[i].kind = "recEnd"
        /\ Cardinality({j \in 1..i : lines[j].kind = "recEnd"}) = k

DeleteLine(lines, i) ==
    SubSeq(lines, 1, i - 1) \o SubSeq(lines, i + 1, Len(lines))

\* The report is edited by hand: the "End:" line of block k is deleted.
StoreRemoveEnd ==
    /\ stage = "saved"
    /\ \E k \in 1..Len(input) :
         /\ file' = [file EXCEPT
                        !.lines = DeleteLine(@, EndLineOf(file.lines, k))]
         /\ damaged' = k
    /\ stage' = "edited"
    /\ UNCHANGED <<input, loaded, edit>>
    /\ UNCHANGED uiVars
    /\ UNCHANGED fmtVars

\* The file stays on disk but can no longer be opened.
StoreDeny ==
    /\ stage = "saved"
    /\ file' = [file EXCEPT !.st = "denied"]
    /\ stage' = "edited"
    /\ UNCHANGED <<input, loaded, damaged, edit>>
    /\ UNCHANGED uiVars
    /\ UNCHANGED fmtVars

StoreLoad ==
    /\ stage \in {"start", "saved", "edited"}
    /\ loaded' = loadHistory(file)
    /\ stage' = "loaded"
    /\ UNCHANGED <<input, damaged, edit, file>>
    /\ UNCHANGED uiVars
    /\ UNCHANGED fmtVars

StoreNext == StoreSave \/ StoreRemoveEnd \/ StoreDeny \/ StoreLoad

SpecStore == StoreInit /\ [][StoreNext]_vars

----------------------------------------------------------------------------
(* The store with a report damaged after it was written: a value that
   time.Parse rejects, or the end of the file missing. *)

MaxDamageLen == 3

DamageInstants ==
    {At(0, 11, 59, 58, 0), At(0, 23, 59, 59, 0), At(1, 12, 0, 2, 500)}

DamageSessions ==
    {session(a, b, b - a) : <<a, b>> \in
        {<<a, b>> \in DamageInstants \X DamageInstants : a <= b}}

DamageInit ==
    /\ input \in SeqsUpTo(DamageSessions, MaxDamageLen)
    /\ loaded = <<>>
    /\ stage = "start"
    /\ damaged = 0
    /\ edit = NoEdit
    /\ file = NoFile
    /\ m = initialModel(NoFile)
    /\ ticks = 0
    /\ now = 0
    /\ saveCalls = <<>>
    /\ saveErr = "none"
    /\ loadCalls = 0
    /\ arg = 0
    /\ text = NoText

\* Position of the k-th line of the given kind in a report.
LineOf(lines, kind, k) ==
    CHOOSE i \in 1..Len(lines) :
        /\ lines[i].kind = kind
        /\ Cardinality({j \in 1..i : lines[j].kind = kind}) = k

\* Non-empty values the layout "Monday, January 02, 2006 03:04:05 PM" does
\* not accept: two dates for one, hour 13, minute 60, a clock cut short.
Unparseable(kind) ==
    IF kind = "recDate" THEN {<<0, 0>>}
    ELSE {<<13, 0, 0, 1>>, <<11, 60, 0, 0>>, <<11, 59>>}

\* The report is edited by hand: the value of the "Date:", "Start:" or "End:"
\* line of block k is replaced by one that does not parse.
StoreGarble ==
    /\ stage = "saved"
    /\ \E k \in 1..Len(input), kind \in {"recDate", "recStart", "recEnd"} :
         \E junk \in Unparseable(kind) :
            /\ file' = [file EXCEPT
                           !.lines[LineOf(file.lines, kind, k)] = Line(kind, junk)]
            /\ edit' = [kind |-> "garble", at |-> k]
    /\ stage' = "edited"
    /\ UNCHANGED <<input, loaded, damaged>>
    /\ UNCHANGED uiVars
    /\ UNCHANGED fmtVars

\* The report is cut off after its n-th line.
StoreTruncate ==
    /\ stage = "saved"
    /\ \E n \in 0..Len(file.lines) :
         /\ file' = [file EXCEPT !.lines = SubSeq(@, 1, n)]
         /\ edit' = [kind |-> "cut", at |-> n]
    /\ stage' = "edited"
    /\ UNCHANGED <<input, loaded, damaged>>
    /\ UNCHANGED uiVars
    /\ UNCHANGED fmtVars

DamageNext == StoreSave \/ StoreGarble \/ StoreTruncate \/ StoreLoad

SpecDamage == DamageInit /\ [][DamageNext]_vars

----------------------------------------------------------------------------
(* The formatters alone: a duration is drawn and one of the two functions is
   called on it, as viewTracking, viewHistory and saveHistory do. *)

MaxSeconds == 3725

(* Whole seconds and the last millisecond before the next one, and a few
   durations whose hours need one, two and three digits. *)
Durations ==
    {sec * Second + ms : sec \in 0..MaxSeconds, ms \in {0, 999}}
    \cup {h * Hour + 59 * Minute + 59 * Second : h \in {9, 10, 99, 100}}

FormatInit ==
    /\ arg \in Durations
    /\ text = NoText
    /\ input = <<>>
    /\ loaded = <<>>
    /\ stage = "format"
    /\ damaged = 0
    /\ edit = NoEdit
    /\ file = NoFile
    /\ m = initialModel(NoFile)
    /\ ticks = 0
    /\ now = 0
    /\ saveCalls = <<>>
    /\ saveErr = "none"
    /\ loadCalls = 0

CallFormatDurationLong ==
    /\ text' = [fn |-> "formatDurationLong", s |-> formatDurationLong(arg)]
    /\ UNCHANGED <<arg, file>>
    /\ UNCHANGED uiVars
    /\ UNCHANGED storeVars

CallFormatDuration ==
    /\ text' = [fn |-> "formatDuration", s |-> formatDuration(arg)]
    /\ UNCHANGED <<arg, file>>
    /\ UNCHANGED uiVars
    /\ UNCHANGED storeVars

FormatNext == CallFormatDurationLong \/ CallFormatDuration

SpecFormat == FormatInit /\ [][FormatNext]_vars

----------------------------------------------------------------------------
(* The program: tea.NewProgram(initialModel()).Run() *)

\* Readings of the wall clock: half a second past ten, and three quarters
\* of a second later (before the first tick of a timer started at the first
\* reading is due).
Instants == {At(0, 10, 0, 0, 500), At(0, 10, 0, 1, 250)}

\* A session recorded by an earlier run, stopped half a second after the
\* last tick.
EarlierSession ==
    session(At(0, 8, 0, 0, 250), At(0, 9, 2, 5, 750), 3725 * Second)

\* history.txt at startup: absent, or the report an earlier run wrote.
StartFiles ==
    {NoFile,
     saveHistory(NoFile, <<EarlierSession>>, At(0, 9, 2, 5, 750),
                 "ok", 0).file}

\* Outcomes of os.WriteFile the program is run against: success, and a
\* failure after the file was truncated.
WriteOutcomes == {"ok", "write"}

Keys ==
    {"ctrl+c", "q", "up", "k", "down", "j", "enter", "esc", "b", "s", "d",
     "backspace", " ", "x"}

Init ==
    /\ file \in StartFiles
    /\ m = initialModel(file)
    /\ loadCalls = 1
    /\ ticks = 0
    /\ now = At(0, 10, 0, 0, 500)
    /\ saveCalls = <<>>
    /\ saveErr = "none"
    /\ input = <<>>
    /\ loaded = <<>>
    /\ stage = "ui"
    /\ damaged = 0
    /\ edit = NoEdit
    /\ arg = 0
    /\ text = NoText

\* One pass of the event loop: Update on msg, then the command it returned.
\* `taken` is the number of pending ticks the message itself uses up.
\* tea.Quit ends the program: the model returned with it is never used, and
\* the behaviour stutters from there on.
Handle(msg, taken) ==
    /\ \E outcome \in WriteOutcomes :
         LET werr == IF outcome = "ok" THEN "nil" ELSE "err"
             r    == Update(m, msg, now, werr)
             left == ticks - taken + (IF r.cmd = "tick" THEN 1 ELSE 0)
         IN  IF r.cmd = "quit"
             THEN UNCHANGED <<m, ticks, file, saveCalls, saveErr>>
             ELSE /\ Len(r.m.history) <= MaxHistory
                  /\ left <= MaxTicks
                  /\ m' = r.m
                  /\ ticks' = left
                  /\ saveCalls' = r.saved
                  /\ IF r.saved = <<>>
                     THEN outcome = "ok" /\ UNCHANGED <<file, saveErr>>
                     ELSE \E cut \in WriteCuts(WriteReport(r.saved[1], now)) :
                            LET w == saveHistory(file, r.saved[1], now,
                                                 outcome, cut)
                            IN  file' = w.file /\ saveErr' = w.err
    /\ UNCHANGED <<now, loadCalls>>
    /\ UNCHANGED storeVars
    /\ UNCHANGED fmtVars

TimePasses ==
    /\ \E t \in Instants : t > now /\ now' = t
    /\ UNCHANGED <<m, ticks, file, saveCalls, saveErr, loadCalls>>
    /\ UNCHANGED storeVars
    /\ UNCHANGED fmtVars

\* A pending tick is delivered at some later pass of the loop; how long
\* after it was scheduled is left open.
Tick == ticks > 0 /\ Handle(TickMsg, 1)

KeyMenu ==
    m.currentView = "menuView" /\ \E key \in Keys : Handle(KeyMsg(key), 0)

KeyTracking ==
    m.currentView = "trackingView" /\ \E key \in Keys : Handle(KeyMsg(key), 0)

KeyHistory ==
    m.currentView = "historyView" /\ \E key \in Keys : Handle(KeyMsg(key), 0)

KeySettings ==
    m.currentView = "settingsView" /\ \E key \in Keys : Handle(KeyMsg(key), 0)

Next ==
    TimePasses \/ Tick \/ KeyMenu \/ KeyTracking \/ KeyHistory \/ KeySettings

Spec == Init /\ [][Next]_vars

----------------------------------------------------------------------------
(* Properties of the store *)

WellFormed(sess) ==
    /\ sess.end >= sess.start
    /\ sess.start % Second = 0
    /\ sess.end % Second = 0

\* What the record block of sess says: the day and the second of its start,
\* and the second of the day of its end.
OnDisk(sess) ==
    LET start == sess.start - (sess.start % Second)
        end   == (sess.start - (sess.start % Day))
                 + ((sess.end % Day) - (sess.end % Second))
    IN  session(start, end, end - start)

OnDiskAll(history) == [i \in 1..Len(history) |-> OnDisk(history[i])]

RemoveAt(q, k) == SubSeq(q, 1, k - 1) \o SubSeq(q, k + 1, Len(q))

LoadedIntact ==
    stage = "loaded" /\ file.st = "ok" /\ damaged = 0 /\ edit = NoEdit

\* C1: a collection of well-formed sessions written by saveHistory is
\* returned by loadHistory with every start and end equal to the original
\* and duration = end - start, also when a session ends on a later day than
\* it starts.
C1_RoundTrip ==
    (LoadedIntact /\ \A i \in 1..Len(input) : WellFormed(input[i]))
        => /\ Len(loaded) = Len(input)
           /\ \A i \in 1..Len(input) :
                /\ loaded[i].start = input[i].start
                /\ loaded[i].end = input[i].end
                /\ loaded[i].duration = input[i].end - input[i].start

\* C2: the i-th session returned by loadHistory is the one of the i-th
\* record block of the report, for every collection written.
C2_OrderPreserved ==
    LoadedIntact
        => /\ Len(loaded) = Len(input)
           /\ \A i \in 1..Len(input) :
                loaded[i].start = input[i].start - (input[i].start % Second)

C2_Witness ==
    /\ LoadedIntact
    /\ Len(input) = 2
    /\ input[1].start > input[2].start
    /\ Len(loaded) = 2

\* C3: with the "End:" line of record block k deleted, loadHistory returns
\* the sessions of all the other blocks, in order, each as its own block
\* states it, and nothing for block k.
C3_DamagedBlockDropped ==
    (stage = "loaded" /\ file.st = "ok" /\ damaged > 0)
        => loaded = RemoveAt(OnDiskAll(input), damaged)

C3_Witness ==
    /\ stage = "loaded"
    /\ file.st = "ok"
    /\ damaged = 2
    /\ Len(input) = 2
    /\ input[1].end # input[2].end
    /\ Len(loaded) = 1

\* C4: when history.txt is missing or cannot be opened, loadHistory returns
\* the empty collection.
C4_MissingFileEmpty ==
    (stage = "loaded" /\ file.st # "ok") => loaded = <<>>

C4_Witness ==
    /\ stage = "loaded"
    /\ file.st = "denied"
    /\ Len(input) = 2
    /\ loaded = <<>>

Kinds(lines) == {lines[i].kind : i \in 1..Len(lines)}

\* C5: the report of the empty collection holds the header banner, the
\* metadata block, the SESSION HISTORY banner and the footer, and
\* loadHistory returns the empty collection for it.
C5_ZeroSessions ==
    (input = <<>> /\ file.st = "ok")
        => /\ {"hdrTop", "hdrArt", "hdrBot", "generated", "totalSessions",
               "totalTime", "secTop", "secTitle", "secBot", "ftrTop",
               "ftrTitle", "ftrBot"} \subseteq Kinds(file.lines)
           /\ \E i \in 1..Len(file.lines) :
                file.lines[i] = Line("totalSessions", <<0>>)
           /\ stage = "loaded" => loaded = <<>>

C5_Witness ==
    /\ input = <<>>
    /\ file.st = "ok"
    /\ stage = "loaded"
    /\ loaded = <<>>
    /\ \E i \in 1..Len(file.lines) : file.lines[i].kind = "secBot"

----------------------------------------------------------------------------
(* Properties of the program *)

ValueOf(lines, kind) ==
    lines[CHOOSE i \in 1..Len(lines) : lines[i].kind = kind].val

NumBlocks(lines) == Cardinality({i \in 1..Len(lines) : lines[i].kind = "recNum"})

\* C6: loading a report written by saveHistory and saving the loaded
\* collection unchanged writes the same Total Sessions and Total Time.
C6_LoadSaveSameTotals ==
    (file.st = "ok" /\ saveErr # "err")
        => LET again == WriteReport(loadHistory(file), now)
           IN  /\ ValueOf(again, "totalSessions")
                    = ValueOf(file.lines, "totalSessions")
               /\ ValueOf(again, "totalTime")
                    = ValueOf(file.lines, "totalTime")

\* C7: loadHistory is called once, at startup; an event that changes the
\* history calls saveHistory once, with the new history, whatever the
\* settings are; and after a successful write the report has one record
\* block per session in memory.
C7_PersistOnMutation ==
    [][/\ loadCalls' = 1
       /\ Len(saveCalls') <= 1
       /\ m'.history # m.history => saveCalls' = <<m'.history>>
       /\ saveErr' = "nil" => NumBlocks(file'.lines) = Len(m'.history)]_vars

C7_Witness ==
    /\ ~m.settings["Auto-save"]
    /\ saveCalls = <<m.history>>
    /\ saveErr = "nil"
    /\ Len(m.history) = 2
    /\ NumBlocks(file.lines) = 2

\* C8: a failed write is returned by saveHistory as an error; no handler's
\* result (model, command, saveHistory calls) depends on that value, the
\* history in memory is the one handed to saveHistory also when the write
\* failed, and saveHistory is not called a second time.
C8_WriteFailureIgnored ==
    /\ \A key \in Keys :
          Update(m, KeyMsg(key), now, "err") = Update(m, KeyMsg(key), now, "nil")
    /\ Update(m, TickMsg, now, "err") = Update(m, TickMsg, now, "nil")
    /\ Len(saveCalls) <= 1
    /\ saveCalls # <<>> => m.history = saveCalls[1]
    /\ (saveCalls # <<>> /\ "ftrBot" \notin Kinds(file.lines))
          => saveErr = "err"

C8_Witness ==
    /\ saveErr = "err"
    /\ saveCalls = <<m.history>>
    /\ m.currentView = "historyView"
    /\ Len(m.history) = 1
    /\ "ftrBot" \notin Kinds(file.lines)

\* C9: every session of the history has duration = end - start.
C9_DurationDerived ==
    \A i \in 1..Len(m.history) :
        m.history[i].duration = m.history[i].end - m.history[i].start

\* C10: a stop appends one session and keeps the earlier ones; a delete in
\* the history view with cursor c removes the session at position c and
\* keeps the others in order; nothing else changes the history.
C10_HistoryFrame ==
    [][LET h  == m.history
           h2 == m'.history
           appended == /\ Len(h2) = Len(h) + 1
                       /\ \A i \in 1..Len(h) : h2[i] = h[i]
           removed  == /\ m.cursor < Len(h)
                       /\ Len(h2) = Len(h) - 1
                       /\ \A i \in 1..Len(h2) :
                            h2[i] = IF i <= m.cursor THEN h[i] ELSE h[i + 1]
       IN  /\ (m.tracking /\ ~m'.tracking) => appended
           /\ (now' = now /\ m.currentView = "historyView"
                 /\ saveCalls' # <<>>) => removed
           /\ h2 # h => \/ m.tracking /\ ~m'.tracking /\ appended
                        \/ m.currentView = "historyView" /\ removed]_vars

C10_Witness ==
    /\ m.currentView = "historyView"
    /\ saveCalls = <<m.history>>
    /\ m.cursor = 0
    /\ Len(m.history) = 1
    /\ m.history[1].start \in Instants
    /\ m.history[1].end > m.history[1].start

----------------------------------------------------------------------------
(* Helpers of the formatter properties. *)

(* The number a tuple of decimal digits stands for. *)
RECURSIVE DigitsValue(_)
DigitsValue(ds) ==
    IF ds = <<>> THEN 0
    ELSE 10 * DigitsValue(SubSeq(ds, 1, Len(ds) - 1)) + ds[Len(ds)]

IsDigits(ds) == \A i \in 1..Len(ds) : ds[i] \in 0..9

WholeSeconds == arg % Second = 0

(* C11: for every non-negative whole-second duration d, with h = d div 3600,
   mi = (d div 60) mod 60 and s = d mod 60, formatDurationLong returns
   "<h>h <mi>m <s>s" when h > 0, "<mi>m <s>s" when h = 0 and mi > 0, and
   "<s>s" otherwise; 3725 s gives "1h 2m 5s", 65 s "1m 5s", 5 s "5s" and
   0 s "0s". *)
C11_LongForm ==
    (text.fn = "formatDurationLong" /\ arg >= 0 /\ WholeSeconds) =>
        LET d  == arg \div Second
            h  == d \div 3600
            mi == (d \div 60) % 60
            s  == d % 60
        IN  /\ h > 0 => text.s = <<h, mi, s>>
            /\ (h = 0 /\ mi > 0) => text.s = <<mi, s>>
            /\ (h = 0 /\ mi = 0) => text.s = <<s>>
            /\ d = 3725 => text.s = <<1, 2, 5>>
            /\ d = 65 => text.s = <<1, 5>>
            /\ d = 5 => text.s = <<5>>
            /\ d = 0 => text.s = <<0>>

C11_Witness ==
    text.fn = "formatDurationLong" /\ arg = 3725 * Second /\ text.s = <<1, 2, 5>>

(* C12: for every non-negative elapsed value formatDuration returns the
   zero-padded "MM:SS" when the whole hours are zero (62 s gives "01:02") and
   the zero-padded "HH:MM:SS" when they are positive (3723 s gives
   "01:02:03"); the minute and the second fields are always in 00..59. *)
C12_ShortForm ==
    (text.fn = "formatDuration" /\ arg >= 0) =>
        LET d  == arg \div Second
            h  == d \div 3600
            mi == (d \div 60) % 60
            s  == d % 60
            n  == Len(text.s)
        IN  /\ n = (IF h > 0 THEN 3 ELSE 2)
            /\ \A i \in 1..n : IsDigits(text.s[i]) /\ Len(text.s[i]) >= 2
            /\ Len(text.s[n - 1]) = 2 /\ Len(text.s[n]) = 2
            /\ DigitsValue(text.s[n - 1]) = mi /\ DigitsValue(text.s[n]) = s
            /\ DigitsValue(text.s[n - 1]) \in 0..59
            /\ DigitsValue(text.s[n]) \in 0..59
            /\ h > 0 => DigitsValue(text.s[1]) = h
            /\ (h > 0 /\ text.s[1][1] = 0) => Len(text.s[1]) = 2
            /\ d = 62 => text.s = <<(<<0, 1>>), (<<0, 2>>)>>
            /\ d = 3723 => text.s = <<(<<0, 1>>), (<<0, 2>>), (<<0, 3>>)>>

C12_Witness ==
    /\ text.fn = "formatDuration"
    /\ arg = 3723 * Second + 999
    /\ text.s = <<(<<0, 1>>), (<<0, 2>>), (<<0, 3>>)>>

----------------------------------------------------------------------------
(* Properties of the damaged report. *)

\* The record blocks of the report of history whose closing line is among
\* the first n lines.
CompleteBlocks(history, n) ==
    LET lines == WriteReport(history, StoreNow)
    IN  Cardinality({i \in 1..n : lines[i].kind = "recBot"})

\* C13: a record block whose "Date:", "Start:" and "End:" values are all
\* non-empty but one of whose timestamps does not parse adds no session; the
\* record is dropped at its closing line, and the blocks before and after it
\* are returned as they stand.
C13_ParseFailureSkipped ==
    (stage = "loaded" /\ edit.kind = "garble")
        => loaded = RemoveAt(OnDiskAll(input), edit.at)

C13_Witness ==
    /\ stage = "loaded"
    /\ edit = [kind |-> "garble", at |-> 1]
    /\ Len(input) = 3
    /\ loaded = <<OnDisk(input[2]), OnDisk(input[3])>>
    /\ input[1] # input[2]

\* C14: for a report cut off after any of its lines loadHistory returns
\* exactly the sessions of the record blocks that are complete before the
\* cut, a prefix of the written sessions; a partial last block gives none.
C14_TruncationPrefix ==
    (stage = "loaded" /\ edit.kind = "cut")
        => loaded = SubSeq(OnDiskAll(input), 1, CompleteBlocks(input, edit.at))

\* The cut falls between the "End:" line and the closing line of block 2.
C14_Witness ==
    /\ stage = "loaded"
    /\ edit.kind = "cut"
    /\ Len(input) = 3
    /\ edit.at > 0
    /\ file.lines[edit.at].kind = "recDur"
    /\ Len(loaded) = 1
    /\ loaded = <<OnDisk(input[1])>>

----------------------------------------------------------------------------
(* Properties of the event loop, continued. *)

\* C15: after every successful saveHistory the file is the report of the
\* collection passed and of nothing else, whatever it held before (an older
\* report, the rest of a failed write, or nothing); loadHistory of it returns
\* the sessions in memory, so a deleted session is not returned again.
C15_TotalOverwrite ==
    [][(now' = now /\ saveCalls' # <<>> /\ saveErr' = "nil")
          => /\ file'.lines = WriteReport(saveCalls'[1], now)
             /\ loadHistory(file') = OnDiskAll(m'.history)]_vars

\* The only session was deleted in the history view and the file has no
\* record block left.
C15_Witness ==
    /\ m.currentView = "historyView"
    /\ saveCalls = <<m.history>>
    /\ saveErr = "nil"
    /\ m.history = <<>>
    /\ "noSessions" \in Kinds(file.lines)
    /\ loadHistory(file) = <<>>

\* C16: "Start tracking" chosen while tracking and "Stop tracking" chosen
\* while not tracking change nothing and call nothing; tracking starts with
\* the history untouched and is ended only by a stop, which appends exactly
\* one session and saves; the history grows at no other step.  So the
\* sessions appended are the completed start-then-stop pairs.
C16_StartStopGuards ==
    [][LET h     == m.history
           h2    == m'.history
           enter == KeyMsg("enter")
       IN  /\ (m.currentView = "menuView" /\ m.cursor = 0 /\ m.tracking)
                 => \A t \in Instants, w \in {"nil", "err"} :
                       Update(m, enter, t, w) = Result(m, "nil", <<>>)
           /\ (m.currentView = "menuView" /\ m.cursor = 1 /\ ~m.tracking)
                 => \A t \in Instants, w \in {"nil", "err"} :
                       Update(m, enter, t, w) = Result(m, "nil", <<>>)
           /\ (~m.tracking /\ m'.tracking)
                 => h2 = h /\ m'.trackingStart = now /\ saveCalls' = <<>>
           /\ (m.tracking /\ m'.tracking)
                 => m'.trackingStart = m.trackingStart
           /\ (m.tracking /\ ~m'.tracking)
                 => /\ Len(h2) = Len(h) + 1
                    /\ h2[Len(h2)].start = m.trackingStart
                    /\ saveCalls' = <<h2>>
           /\ Len(h2) > Len(h) => (m.tracking /\ ~m'.tracking)]_vars

\* The menu is shown with the cursor on "Start tracking" while a session
\* started earlier is being tracked.
C16_Witness ==
    /\ m.currentView = "menuView"
    /\ m.cursor = 0
    /\ m.tracking
    /\ m.trackingStart < now

\* C17: "esc"/"b" in the tracking view shows the menu and leaves tracking,
\* trackingStart, elapsed and the history as they are; while the menu is
\* shown and tracking is on a tick is pending, and a tick sets elapsed to the
\* time since trackingStart and schedules the next one; a stop chosen from
\* the menu then records a session that starts at that trackingStart.
C17_BackKeepsTimer ==
    [][/\ (m.currentView = "trackingView" /\ m'.currentView = "menuView"
               /\ m'.history = m.history)
             => /\ m.tracking /\ m'.tracking
                /\ m'.trackingStart = m.trackingStart
                /\ m'.elapsed = m.elapsed
       /\ (m.currentView = "menuView" /\ m.tracking)
             => /\ ticks >= 1
                /\ Update(m, TickMsg, now, "nil")
                     = Result([m EXCEPT !.elapsed = now - m.trackingStart],
                              "tick", <<>>)
       /\ (m.currentView = "menuView" /\ m.tracking /\ m'.tracking
               /\ m'.elapsed # m.elapsed)
             => /\ m'.elapsed = now - m.trackingStart
                /\ m'.currentView = "menuView"
                /\ ticks' = ticks
       /\ (m.currentView = "menuView" /\ m.tracking /\ ~m'.tracking)
             => m'.history[Len(m'.history)].start = m.trackingStart]_vars

\* Back in the menu, with the timer refreshed by a tick since.
C17_Witness ==
    /\ m.currentView = "menuView"
    /\ m.tracking
    /\ m.elapsed > 0
    /\ m.elapsed = now - m.trackingStart
    /\ ticks >= 1

\* C18: in every reachable state at most one tick is pending.
C18_SingleTickChain == ticks <= 1

\* C19: the cursor is in 0..4 in the menu and in 0..max(0, len(history) - 1)
\* in the history view, also after a delete; settingsCursor is in 0..3 in
\* every state.
C19_CursorBounds ==
    /\ m.currentView = "menuView" => m.cursor \in 0..(Len(menuItems) - 1)
    /\ Len(menuItems) = 5
    /\ m.currentView = "historyView"
          => m.cursor \in 0..(IF Len(m.history) > 0 THEN Len(m.history) - 1
                              ELSE 0)
    /\ m.settingsCursor \in 0..3
    /\ m.settingsCursor + 1 \in DOMAIN settingsKeys

\* The second of two sessions was deleted with the cursor on it: the cursor
\* is on the session loaded at startup, the only one left.
C19_Witness ==
    /\ m.currentView = "historyView"
    /\ saveCalls = <<m.history>>
    /\ Len(m.history) = 1
    /\ m.history[1].start < At(0, 10, 0, 0, 0)
    /\ m.cursor = 0

\* C20: the tracking view is shown only while tracking, and elapsed is zero
\* whenever tracking is off.
C20_ViewTrackingConsistent ==
    /\ m.currentView = "trackingView" => m.tracking
    /\ ~m.tracking => m.elapsed = 0

\* A session with a non-zero duration was just stopped in the tracking view.
C20_Witness ==
    /\ ~m.tracking
    /\ m.currentView = "menuView"
    /\ saveCalls = <<m.history>>
    /\ m.history # <<>>
    /\ m.history[Len(m.history)].duration > 0
    /\ m.elapsed = 0

=============================================================================
